---- MODULE Spec2Model ----
(***************************************************************************)
(* Model of the comment merge of hn-companion-mcp: extractComments of      *)
(* src/lib/fetch-comments.ts (compiled twin: src/unnamed/part_000).        *)
(*                                                                         *)
(* An API tree is a function from node numbers 0..n (0 is the root, nodes  *)
(* numbered in pre-order) to records [id, type, author, children], the id  *)
(* of node k being the decimal string of k; the DOM map is a function from *)
(* numeric keys to records [position, text, downvotes].  Strings built by  *)
(* the code (paths) are strings here.                                      *)
(*                                                                         *)
(* Around it: getCommentsFromDOM and getDownvoteCount of the same file,    *)
(* getPostId of src/lib/utils.js and the formatting of the tool handler of *)
(* src/server.js.  A page is the sequence of its comment rows; a property  *)
(* an object lacks is a field its record lacks.                            *)
(*                                                                         *)
(* The servers: the timer of the tool handler and findAvailablePort of     *)
(* src/server.js, the summarize handlers of src/unnamed/part_005, and      *)
(* createCommentPathIdMapping of src/src/cli.js.                           *)
(***************************************************************************)
EXTENDS Integers, Sequences, FiniteSets, TLC

VARIABLES
    commentsTree,     \* argument of extractComments: the API tree
    commentsInDOM,    \* argument of extractComments: the DOM map
    pc,               \* position inside extractComments
    flatComments,     \* local array of extractComments
    topLevelCounter,  \* local counter of extractComments
    result,           \* <<list>> once extractComments has returned, <<>> otherwise
    scoreCalls,       \* history: totalCommentCount of every calculateScore call
    memo,             \* history: <<[tree, dom, outcome, result, others]>> of the first call
    probe,            \* arguments and result of a function evaluated alone
    response,         \* <<[formattedComments, commentCount]>> once the tool call has answered
    page,             \* the .comtr rows of the downloaded page, in document order
    toolCall,         \* the tool handler's timer, controller and pending download
    portSearch,       \* locals and promise of findAvailablePort, and the ports' state
    httpCall          \* a request to the HTTP server, its download and its responses

vars == <<commentsTree, commentsInDOM, pc, flatComments, topLevelCounter,
          result, scoreCalls, memo, probe, response, page,
          toolCall, portSearch, httpCall>>

\* the value of toolCall, portSearch and httpCall where they play no part
NotRunning == << >>

----------------------------------------------------------------------------
(* Bounds of the explored inputs *)

MaxNodes == 3         \* non-root nodes of the API tree
MaxPos == 2           \* largest row index stored in a DOM record
CallsMaxNodes == 2    \* the same two bounds for the inputs of repeated calls
CallsMaxPos == 1
ScoreMaxPos == 12     \* calculateScore evaluated alone: positions 0..ScoreMaxPos
ScoreMaxTotal == 8    \* and totals 1..ScoreMaxTotal
DownvoteLevels == {0, 5}
AllDownvoteLevels == 0..9

Null == "null"        \* JavaScript null (parentId of the root call); no id
RootNode == 0         \* the node extractComments is called on

\* a property an object does not have reads as undefined; such a field is
\* left out of the record
Undefined == "undefined"
NaN == -1             \* Number(undefined), a key no decimal string converts to

----------------------------------------------------------------------------
(* Input universe *)

RECURSIVE AncestorsOrSelf(_, _)
AncestorsOrSelf(p, i) ==
    IF i = 0 THEN {0} ELSE {i} \cup AncestorsOrSelf(p, p[i])

\* parent maps of the ordered trees with n non-root nodes, numbered in pre-order
ParentMaps(n) ==
    { p \in [1..n -> 0..(n-1)] :
        \A i \in 1..n : /\ p[i] < i
                        /\ (i > 1 => p[i] \in AncestorsOrSelf(p, i - 1)) }

ChildrenOf(p, n, k) ==
    SelectSeq([i \in 1..n |-> i], LAMBDA m : p[m] = k)

\* ids are decimal strings (CommentTree.id: string), DOM keys are numbers
IdOf(k) == ToString(k)
AuthorOf(k) == "user" \o ToString(k)
TextOf(key) == "text" \o ToString(key)

\* Shapes of input: the data model's (one story, at the root, not a DOM key),
\* the root's id also a DOM key, a root that is no story, one nested story
Variants(n) ==
    { [rootType |-> rt, rootInDom |-> rd, nested |-> 0] :
        rt \in {"story", "comment"}, rd \in BOOLEAN }
    \cup { [rootType |-> "story", rootInDom |-> FALSE, nested |-> k] : k \in 1..n }

TypeOf(v, k) ==
    IF k = RootNode THEN v.rootType
    ELSE IF k = v.nested THEN "story" ELSE "comment"

TreesOf(v, n) ==
    { [k \in 0..n |-> [id |-> IdOf(k), type |-> TypeOf(v, k), author |-> AuthorOf(k),
                       children |-> ChildrenOf(p, n, k)]] : p \in ParentMaps(n) }

\* downvote levels of the rows: at most one row is downvoted
DownvoteChoices(keys) ==
    { [k \in keys |-> 0] }
    \cup { [k \in keys |-> IF k = dk THEN lv ELSE 0] :
             dk \in keys \ {RootNode}, lv \in DownvoteLevels \ {0} }

\* DOM maps over a set of keys: any row index for a comment's row
DomMapsOver(keys, maxPos) ==
    UNION { { [k \in keys |-> [position |-> pos[k], text |-> TextOf(k),
                               downvotes |-> dv[k]]] : dv \in DownvoteChoices(keys) } :
            pos \in { f \in [keys -> 0..maxPos] : RootNode \in keys => f[RootNode] = 0 } }

DomsOf(v, n, maxPos) ==
    UNION { DomMapsOver(ks \cup (IF v.rootInDom THEN {RootNode} ELSE {}), maxPos) :
            ks \in SUBSET (1..n) }

InputsOf(v, n, maxPos) == TreesOf(v, n) \X DomsOf(v, n, maxPos)

Inputs(n, maxPos) == UNION { InputsOf(v, n, maxPos) : v \in Variants(n) }

WellFormed == [rootType |-> "story", rootInDom |-> FALSE, nested |-> 0]

\* inputs of the calls made between two calls on equal inputs: one-comment stories
OtherInputs == InputsOf(WellFormed, 1, CallsMaxPos)

\* The worked example: S with children A, B and D, B with child C; D is not
\* in the DOM map.  Nodes in pre-order: S = 0, A = 1, B = 2, C = 3, D = 4.
ScenarioTree ==
    [k \in 0..4 |->
        [id |-> IdOf(k), type |-> IF k = 0 THEN "story" ELSE "comment",
         author |-> AuthorOf(k),
         children |-> IF k = 0 THEN <<1, 2, 4>> ELSE IF k = 2 THEN <<3>> ELSE << >>]]

ScenarioDom ==
    [k \in 1..3 |-> [position |-> k - 1, text |-> TextOf(k),
                     downvotes |-> IF k = 3 THEN 5 ELSE 0]]

ToolMaxNodes == 2     \* non-root nodes of the API tree of a tool call
PageMaxRows == 2      \* comment rows of the page of a tool call

\* Pages: rows for distinct comments of the tree in any order; a row is
\* shown, collapsed, hidden, without comment text or without id attribute
RowKinds == {"shown", "coll", "noshow", "notext", "noid"}

PaletteClassOf(k) == IF k = 1 THEN "c00" ELSE IF k = 2 THEN "c9c" ELSE "cdd"

InnerHTMLOf(k) == "text" \o ToString(k) \o "\n\nmore"

CommtextOf(k) ==
    [classList |-> <<"commtext", PaletteClassOf(k)>>, innerHTML |-> InnerHTMLOf(k)]

RowClassList(kind) ==
    IF kind \in {"coll", "noshow"} THEN <<"athing", "comtr", kind>>
    ELSE <<"athing", "comtr">>

RowOf(k, kind) ==
    IF kind = "notext" THEN [classList |-> RowClassList(kind), id |-> IdOf(k)]
    ELSE IF kind = "noid"
    THEN [classList |-> RowClassList(kind), commtext |-> CommtextOf(k)]
    ELSE [classList |-> RowClassList(kind), id |-> IdOf(k), commtext |-> CommtextOf(k)]

Pages(n, maxRows) ==
    UNION { { [i \in 1..len |-> RowOf(f[i], g[i])] :
                f \in { h \in [1..len -> 1..n] :
                          \A a, b \in 1..len : a # b => h[a] # h[b] },
                g \in [1..len -> RowKinds] } :
            len \in 0..maxRows }

ToolTrees(n) == UNION { TreesOf(v, n) : v \in Variants(n) }

RawMaxNodes == 3      \* non-root nodes of a raw API tree

\* Raw API trees, as parsed from the API's JSON: a comment may come without
\* id and a childless node without children property (children?: in the
\* interface).  The property an object lacks is a field the record lacks.
Leaves(p, n) == { k \in 1..n : \A i \in 1..n : p[i] # k }

RawNode(p, n, k, noId, bare) ==
    LET type == IF k = RootNode THEN "story" ELSE "comment"
        hasId == k = RootNode \/ k # noId
    IN
    IF ~hasId /\ k \in bare
    THEN [type |-> type, author |-> AuthorOf(k)]
    ELSE IF ~hasId
    THEN [type |-> type, author |-> AuthorOf(k), children |-> ChildrenOf(p, n, k)]
    ELSE IF k \in bare
    THEN [id |-> IdOf(k), type |-> type, author |-> AuthorOf(k)]
    ELSE [id |-> IdOf(k), type |-> type, author |-> AuthorOf(k),
          children |-> ChildrenOf(p, n, k)]

\* noId = RootNode: every node has its id
RawTrees(n) ==
    UNION { { [k \in 0..n |-> RawNode(p, n, k, noId, bare)] :
                noId \in 0..n, bare \in SUBSET Leaves(p, n) } :
            p \in ParentMaps(n) }

\* rows in the order of the tree, one for any of the comments; a row whose id
\* attribute is no number is stored under the key Number gives it
RawDoms(n) ==
    { [k \in ks |-> [position |-> IF k \in 1..n THEN k - 1 ELSE n,
                      text |-> TextOf(k), downvotes |-> 0]] :
        ks \in SUBSET ((1..n) \cup {NaN}) }

RawInputs(n) == RawTrees(n) \X RawDoms(n)

----------------------------------------------------------------------------
(* extractComments *)

\* Number(comment.id): ids are decimal strings or missing
DecimalKeys == 0..9

Number(id) ==
    IF id = Undefined THEN NaN ELSE CHOOSE n \in DecimalKeys : ToString(n) = id

\* comment.id
CommentId(comment) == IF "id" \in DOMAIN comment THEN comment.id ELSE Undefined

\* the children visited: comment.children && comment.children.length > 0
VisitedChildren(comment) ==
    IF "children" \in DOMAIN comment THEN comment.children ELSE << >>

\* 1 for a comment with children, 0 otherwise
RepliesOf_HasChildren(comment) ==
    IF "children" \in DOMAIN comment /\ comment.children # << >> THEN 1 ELSE 0

\* comment.children?.length || 0
RepliesOf(comment) ==
    IF "children" \in DOMAIN comment THEN Len(comment.children) ELSE 0

EmptyPath == ""

RECURSIVE flattenCommentTree(_, _, _, _)
RECURSIVE FlattenChildren(_, _, _, _)

\* a node absent from the DOM map is dropped but its children are still
\* visited, as children of the node's parent
flattenCommentTree_SplicesMissing(tree, domMap, node, parentId) ==
    LET comment == tree[node] IN
    IF comment.type = "story"
    THEN FlattenChildren(tree, domMap, VisitedChildren(comment), CommentId(comment))
    ELSE IF Number(CommentId(comment)) \notin DOMAIN domMap
    THEN FlattenChildren(tree, domMap, VisitedChildren(comment), parentId)
    ELSE LET commentInDOM == domMap[Number(CommentId(comment))] IN
         << [id |-> CommentId(comment),
             author |-> comment.author,
             replies |-> RepliesOf(comment),
             position |-> commentInDOM.position,
             text |-> commentInDOM.text,
             downvotes |-> commentInDOM.downvotes,
             parentId |-> parentId,
             path |-> EmptyPath,
             score |-> 0] >>
         \o FlattenChildren(tree, domMap, VisitedChildren(comment), CommentId(comment))

\* the children of a comment are visited with the comment's own parentId
flattenCommentTree_KeepsParentId(tree, domMap, node, parentId) ==
    LET comment == tree[node] IN
    IF comment.type = "story"
    THEN FlattenChildren(tree, domMap, VisitedChildren(comment), CommentId(comment))
    ELSE IF Number(CommentId(comment)) \notin DOMAIN domMap
    THEN << >>
    ELSE LET commentInDOM == domMap[Number(CommentId(comment))] IN
         << [id |-> CommentId(comment),
             author |-> comment.author,
             replies |-> RepliesOf(comment),
             position |-> commentInDOM.position,
             text |-> commentInDOM.text,
             downvotes |-> commentInDOM.downvotes,
             parentId |-> parentId,
             path |-> EmptyPath,
             score |-> 0] >>
         \o FlattenChildren(tree, domMap, VisitedChildren(comment), parentId)

\* the comments pushed by flattenCommentTree(comment, parentId), in push order
flattenCommentTree(tree, domMap, node, parentId) ==
    LET comment == tree[node] IN
    IF comment.type = "story"
    THEN FlattenChildren(tree, domMap, VisitedChildren(comment), CommentId(comment))
    ELSE IF Number(CommentId(comment)) \notin DOMAIN domMap
    THEN << >>
    ELSE LET commentInDOM == domMap[Number(CommentId(comment))] IN
         << [id |-> CommentId(comment),
             author |-> comment.author,
             replies |-> RepliesOf(comment),
             position |-> commentInDOM.position,
             text |-> commentInDOM.text,
             downvotes |-> commentInDOM.downvotes,
             parentId |-> parentId,
             path |-> EmptyPath,
             score |-> 0] >>
         \o FlattenChildren(tree, domMap, VisitedChildren(comment), CommentId(comment))

FlattenChildren(tree, domMap, children, parentId) ==
    IF children = << >> THEN << >>
    ELSE flattenCommentTree(tree, domMap, Head(children), parentId)
         \o FlattenChildren(tree, domMap, Tail(children), parentId)

\* the comparator with its operands exchanged
ComparePosition_Descending(a, b) == b.position - a.position

\* comparator of flatComments.sort
ComparePosition(a, b) == a.position - b.position

\* insert c before the first element that does not compare less, so that
\* elements that compare equal change places
RECURSIVE InsertSorted_BeforeEqual(_, _)
InsertSorted_BeforeEqual(c, sorted) ==
    IF sorted = << >> THEN << c >>
    ELSE IF ComparePosition(Head(sorted), c) >= 0 THEN << c >> \o sorted
    ELSE << Head(sorted) >> \o InsertSorted_BeforeEqual(c, Tail(sorted))

\* insert c behind every element that does not compare greater (stable)
RECURSIVE InsertSorted(_, _)
InsertSorted(c, sorted) ==
    IF sorted = << >> THEN << c >>
    ELSE IF ComparePosition(Head(sorted), c) > 0 THEN << c >> \o sorted
    ELSE << Head(sorted) >> \o InsertSorted(c, Tail(sorted))

RECURSIVE SortFrom(_, _)
SortFrom(comments, sorted) ==
    IF comments = << >> THEN sorted
    ELSE SortFrom(Tail(comments), InsertSorted(Head(comments), sorted))

\* Array.prototype.sort with ComparePosition: a stable sort
SortByPosition(comments) == SortFrom(comments, << >>)

\* Array.prototype.findIndex (and find), 1-based and 0 when nothing matches;
\* matches[i] is the callback's result on element i
FindIndex(matches) ==
    IF \E i \in DOMAIN matches : matches[i]
    THEN CHOOSE i \in DOMAIN matches : matches[i] /\ \A j \in 1..(i - 1) : ~matches[j]
    ELSE 0

\* the top-level branch reads topLevelCounter without incrementing it
calculatePath_NoIncrement(comment, comments, counter, rootId) ==
    IF comment.parentId = rootId
    THEN [threw |-> FALSE, path |-> ToString(counter), counter |-> counter]
    ELSE LET parentIdx == FindIndex([j \in DOMAIN comments |->
                                        comments[j].id = comment.parentId]) IN
         IF parentIdx = 0
         THEN [threw |-> TRUE, path |-> EmptyPath, counter |-> counter]
         ELSE LET parentPath == comments[parentIdx].path
                  siblings == SelectSeq(comments,
                                        LAMBDA c : c.parentId = comment.parentId)
                  positionInParent == FindIndex([j \in DOMAIN siblings |->
                                                   siblings[j].id = comment.id])
              IN [threw |-> FALSE,
                  path |-> parentPath \o "." \o ToString(positionInParent),
                  counter |-> counter]

\* a comment whose parent is not found takes the next top-level number
calculatePath_DefaultsMissing(comment, comments, counter, rootId) ==
    IF comment.parentId = rootId
       \/ FindIndex([j \in DOMAIN comments |-> comments[j].id = comment.parentId]) = 0
    THEN [threw |-> FALSE, path |-> ToString(counter), counter |-> counter + 1]
    ELSE LET parentIdx == FindIndex([j \in DOMAIN comments |->
                                        comments[j].id = comment.parentId])
             parentPath == comments[parentIdx].path
             siblings == SelectSeq(comments,
                                   LAMBDA c : c.parentId = comment.parentId)
             positionInParent == FindIndex([j \in DOMAIN siblings |->
                                              siblings[j].id = comment.id])
         IN [threw |-> FALSE,
             path |-> parentPath \o "." \o ToString(positionInParent),
             counter |-> counter]

\* a reply's path is its index among its siblings, without its parent's path
calculatePath_IndexOnly(comment, comments, counter, rootId) ==
    IF comment.parentId = rootId
    THEN [threw |-> FALSE, path |-> ToString(counter), counter |-> counter + 1]
    ELSE LET parentIdx == FindIndex([j \in DOMAIN comments |->
                                        comments[j].id = comment.parentId]) IN
         IF parentIdx = 0
         THEN [threw |-> TRUE, path |-> EmptyPath, counter |-> counter]
         ELSE LET siblings == SelectSeq(comments,
                                        LAMBDA c : c.parentId = comment.parentId)
                  positionInParent == FindIndex([j \in DOMAIN siblings |->
                                                   siblings[j].id = comment.id])
              IN [threw |-> FALSE,
                  path |-> ToString(positionInParent),
                  counter |-> counter]

\* every reply takes the number 1 under its parent's path
calculatePath_FirstReply(comment, comments, counter, rootId) ==
    IF comment.parentId = rootId
    THEN [threw |-> FALSE, path |-> ToString(counter), counter |-> counter + 1]
    ELSE LET parentIdx == FindIndex([j \in DOMAIN comments |->
                                        comments[j].id = comment.parentId]) IN
         IF parentIdx = 0
         THEN [threw |-> TRUE, path |-> EmptyPath, counter |-> counter]
         ELSE [threw |-> FALSE,
               path |-> comments[parentIdx].path \o "." \o ToString(1),
               counter |-> counter]

\* calculatePath(comment) with flatComments = comments and topLevelCounter = counter
calculatePath(comment, comments, counter, rootId) ==
    IF comment.parentId = rootId
    THEN [threw |-> FALSE, path |-> ToString(counter), counter |-> counter + 1]
    ELSE LET parentIdx == FindIndex([j \in DOMAIN comments |->
                                        comments[j].id = comment.parentId]) IN
         IF parentIdx = 0
         THEN [threw |-> TRUE, path |-> EmptyPath, counter |-> counter]
         ELSE LET parentPath == comments[parentIdx].path
                  siblings == SelectSeq(comments,
                                        LAMBDA c : c.parentId = comment.parentId)
                  positionInParent == FindIndex([j \in DOMAIN siblings |->
                                                   siblings[j].id = comment.id])
              IN [threw |-> FALSE,
                  path |-> parentPath \o "." \o ToString(positionInParent),
                  counter |-> counter]

MAX_SCORE == 1000
MAX_DOWNVOTES == 10

\* Math.round in place of Math.floor
DefaultScore_Rounded(position, totalCommentCount) ==
    (2 * (MAX_SCORE * totalCommentCount - position * MAX_SCORE) + totalCommentCount)
        \div (2 * totalCommentCount)

\* the magnitude of the default score: positions beyond the total count up
DefaultScore_Magnitude(position, totalCommentCount) ==
    LET d == (MAX_SCORE * totalCommentCount - position * MAX_SCORE)
                 \div totalCommentCount
    IN IF d < 0 THEN 0 - d ELSE d

\* Math.floor(MAX_SCORE - position * MAX_SCORE / totalCommentCount): the
\* quotient is exact to 2^-40 and the result a multiple of 1/totalCommentCount,
\* so the floor of the double equals the floor of the rational
DefaultScore(position, totalCommentCount) ==
    (MAX_SCORE * totalCommentCount - position * MAX_SCORE) \div totalCommentCount

\* the result is not clamped at 0
PenalisedScore_Unclamped(defaultScore, downvotes) ==
    (defaultScore * MAX_DOWNVOTES - defaultScore * downvotes) \div MAX_DOWNVOTES

\* the penalty is added instead of subtracted
PenalisedScore_PenaltyAdded(defaultScore, downvotes) ==
    LET scaled == defaultScore * MAX_DOWNVOTES + defaultScore * downvotes IN
    IF scaled <= 0 THEN 0 ELSE scaled \div MAX_DOWNVOTES

\* Math.floor(Math.max(defaultScore - defaultScore / MAX_DOWNVOTES * downvotes, 0));
\* for defaultScore in 0..1000 and downvotes in 0..9 the double result
\* equals the exact one (a negative defaultScore yields a negative difference
\* and so 0)
PenalisedScore(defaultScore, downvotes) ==
    LET scaled == defaultScore * MAX_DOWNVOTES - defaultScore * downvotes IN
    IF scaled <= 0 THEN 0 ELSE scaled \div MAX_DOWNVOTES

\* const downvotes = comment.downvotes || 0
DownvotesOrZero(comment) == comment.downvotes

calculateScore(comment, totalCommentCount) ==
    PenalisedScore(DefaultScore(comment.position, totalCommentCount),
                   DownvotesOrZero(comment))

\* the number of entries of the DOM map
TotalCommentCount_DomSize(comments) == Cardinality(DOMAIN commentsInDOM)

\* flatComments.length, the second argument of calculateScore
TotalCommentCount(comments) == Len(comments)

\* the forEach also replaces the text by the text behind its path
RECURSIVE ForEachComment_FormatsText(_, _, _, _, _)
ForEachComment_FormatsText(comments, i, counter, rootId, calls) ==
    IF i > Len(comments)
    THEN [threw |-> FALSE, comments |-> comments, counter |-> counter, calls |-> calls]
    ELSE LET r == calculatePath(comments[i], comments, counter, rootId) IN
         IF r.threw
         THEN [threw |-> TRUE, comments |-> comments, counter |-> counter,
               calls |-> calls]
         ELSE LET withPath == [comments EXCEPT ![i].path = r.path]
                  total == TotalCommentCount(withPath)
                  scored == [withPath EXCEPT
                               ![i].score = calculateScore(withPath[i], total),
                               ![i].text = "[" \o r.path \o "] " \o @]
              IN ForEachComment_FormatsText(scored, i + 1, r.counter, rootId,
                                            calls \cup {total})

\* the scoring pass also calls calculateScore once when the list is empty
RECURSIVE ForEachComment_ScoresEmpty(_, _, _, _, _)
ForEachComment_ScoresEmpty(comments, i, counter, rootId, calls) ==
    IF i > Len(comments)
    THEN [threw |-> FALSE, comments |-> comments, counter |-> counter,
          calls |-> IF comments = << >>
                    THEN calls \cup {TotalCommentCount(comments)} ELSE calls]
    ELSE LET r == calculatePath(comments[i], comments, counter, rootId) IN
         IF r.threw
         THEN [threw |-> TRUE, comments |-> comments, counter |-> counter,
               calls |-> calls]
         ELSE LET withPath == [comments EXCEPT ![i].path = r.path]
                  total == TotalCommentCount(withPath)
                  scored == [withPath EXCEPT
                               ![i].score = calculateScore(withPath[i], total)]
              IN ForEachComment_ScoresEmpty(scored, i + 1, r.counter, rootId,
                                            calls \cup {total})

\* flatComments.forEach(comment => { path; score }) from index i on
RECURSIVE ForEachComment(_, _, _, _, _)
ForEachComment(comments, i, counter, rootId, calls) ==
    IF i > Len(comments)
    THEN [threw |-> FALSE, comments |-> comments, counter |-> counter, calls |-> calls]
    ELSE LET r == calculatePath(comments[i], comments, counter, rootId) IN
         IF r.threw
         THEN [threw |-> TRUE, comments |-> comments, counter |-> counter,
               calls |-> calls]
         ELSE LET withPath == [comments EXCEPT ![i].path = r.path]
                  total == TotalCommentCount(withPath)
                  scored == [withPath EXCEPT
                               ![i].score = calculateScore(withPath[i], total)]
              IN ForEachComment(scored, i + 1, r.counter, rootId,
                                calls \cup {total})

\* the pushed objects are the DOM records themselves, so the path and score
\* assignments of the forEach land in the records of the map
DomAfterForEach_SharedRecords(domMap, comments) ==
    [k \in DOMAIN domMap |->
        IF \E i \in DOMAIN comments : Number(comments[i].id) = k
        THEN LET i == CHOOSE j \in DOMAIN comments : Number(comments[j].id) = k
             IN [position |-> domMap[k].position, text |-> domMap[k].text,
                 downvotes |-> domMap[k].downvotes,
                 path |-> comments[i].path, score |-> comments[i].score]
        ELSE domMap[k]]

\* the DOM map after the forEach: flatComments holds the objects created by
\* the literal of the push, which copy position, text and downvotes, so the
\* assignments comment.path = and comment.score = reach no DOM record
DomAfterForEach(domMap, comments) == domMap

\* the counter keeps the value the previous call left
TopLevelCounterStart_Stale == topLevelCounter

\* let topLevelCounter = 1
TopLevelCounterStart == 1

----------------------------------------------------------------------------
(* getDownvoteCount and getCommentsFromDOM *)

UpperCaseLetters == "ABCDEFGHIJKLMNOPQRSTUVWXYZ"
LowerCaseLetters == "abcdefghijklmnopqrstuvwxyz"
HexDigits == {"0", "1", "2", "3", "4", "5", "6", "7", "8", "9",
              "a", "b", "c", "d", "e", "f"}

CharAt(s, i) == SubSeq(s, i, i)

LowerOf(ch) ==
    IF \E i \in 1..Len(UpperCaseLetters) : CharAt(UpperCaseLetters, i) = ch
    THEN CharAt(LowerCaseLetters,
                CHOOSE i \in 1..Len(UpperCaseLetters) : CharAt(UpperCaseLetters, i) = ch)
    ELSE ch

\* String.prototype.toLowerCase
RECURSIVE ToLowerCase(_)
ToLowerCase(s) ==
    IF Len(s) = 0 THEN s
    ELSE LowerOf(CharAt(s, 1)) \o ToLowerCase(SubSeq(s, 2, Len(s)))

\* /c[0-9a-f]{2}/.test(s): the pattern matches anywhere in s
DownvotePatternTest(s) ==
    \E i \in 1..(Len(s) - 2) :
        /\ CharAt(s, i) = "c"
        /\ CharAt(s, i + 1) \in HexDigits
        /\ CharAt(s, i + 2) \in HexDigits

downvoteMap ==
    [c00 |-> 0, c5a |-> 1, c73 |-> 2, c82 |-> 3, c88 |-> 4,
     c9c |-> 5, cae |-> 6, cbe |-> 7, cce |-> 8, cdd |-> 9]

\* downvoteMap[downvoteClass] || 0
DownvoteMapLookup(downvoteClass) ==
    IF downvoteClass \in DOMAIN downvoteMap THEN downvoteMap[downvoteClass] ELSE 0

\* getDownvoteCount of an element whose classList holds the names of classList
getDownvoteCount(classList) ==
    LET found == FindIndex([j \in DOMAIN classList |->
                              DownvotePatternTest(ToLowerCase(classList[j]))])
    IN IF found = 0 THEN 0
       ELSE DownvoteMapLookup(ToLowerCase(classList[found]))

\* String.prototype.replace(/\n+/g, ' ')
RECURSIVE SkipNewlines(_)
SkipNewlines(s) ==
    IF Len(s) > 0 /\ CharAt(s, 1) = "\n" THEN SkipNewlines(SubSeq(s, 2, Len(s))) ELSE s

RECURSIVE ReplaceNewlines(_)
ReplaceNewlines(s) ==
    IF Len(s) = 0 THEN s
    ELSE IF CharAt(s, 1) = "\n" THEN " " \o ReplaceNewlines(SkipNewlines(s))
    ELSE CharAt(s, 1) \o ReplaceNewlines(SubSeq(s, 2, Len(s)))

\* Map.prototype.set
MapSet(map, key, value) ==
    [k \in DOMAIN map \cup {key} |-> IF k = key THEN value ELSE map[k]]

EmptyMap == << >>

\* position is the number of records stored so far, not the row's index
RECURSIVE ForEachRow_CountsKept(_, _, _)
ForEachRow_CountsKept(commentRows, i, map) ==
    IF i > Len(commentRows) THEN map
    ELSE LET commentRow == commentRows[i]
             classList == { commentRow.classList[j] : j \in DOMAIN commentRow.classList }
             commentFlagged == "coll" \in classList \/ "noshow" \in classList
         IN IF commentFlagged \/ "commtext" \notin DOMAIN commentRow
               \/ "id" \notin DOMAIN commentRow \/ commentRow.id = ""
            THEN ForEachRow_CountsKept(commentRows, i + 1, map)
            ELSE ForEachRow_CountsKept(commentRows, i + 1,
                     MapSet(map, Number(commentRow.id),
                            [position |-> Cardinality(DOMAIN map),
                             text |-> ReplaceNewlines(commentRow.commtext.innerHTML),
                             downvotes |-> getDownvoteCount(commentRow.commtext.classList)]))

\* commentRows.forEach((commentRow, index) => ...) from row number i on; rows
\* are numbered from 1 here, index is i - 1
RECURSIVE ForEachRow(_, _, _)
ForEachRow(commentRows, i, map) ==
    IF i > Len(commentRows) THEN map
    ELSE LET commentRow == commentRows[i]
             classList == { commentRow.classList[j] : j \in DOMAIN commentRow.classList }
             commentFlagged == "coll" \in classList \/ "noshow" \in classList
         IN IF commentFlagged \/ "commtext" \notin DOMAIN commentRow
            THEN ForEachRow(commentRows, i + 1, map)
            ELSE LET commentTextDiv == commentRow.commtext
                     commentText == ReplaceNewlines(commentTextDiv.innerHTML)
                     downvotes == getDownvoteCount(commentTextDiv.classList)
                 IN IF "id" \notin DOMAIN commentRow \/ commentRow.id = ""
                    THEN ForEachRow(commentRows, i + 1, map)
                    ELSE ForEachRow(commentRows, i + 1,
                                    MapSet(map, Number(commentRow.id),
                                           [position |-> i - 1,
                                            text |-> commentText,
                                            downvotes |-> downvotes]))

\* the Map getCommentsFromDOM returns for a page whose .comtr rows are commentRows
getCommentsFromDOM(commentRows) == ForEachRow(commentRows, 1, EmptyMap)

\* getDownvoteCount evaluated alone, on class lists of distinct names
ClassMaxLen == 2      \* classes of the element
StoryMaxNodes == 3    \* non-root nodes of the stories of SpecStory, from 0 on
StoryMaxPos == 2      \* largest row index of their DOM records

ClassNames ==
    {"c00", "c5a", "c73", "c82", "c88", "c9c", "cae", "cbe", "cce", "cdd",
     "commtext", "accent", "C9C", "c5"}

ClassLists(maxLen) ==
    UNION { { f \in [1..len -> ClassNames] :
                \A a, b \in 1..len : a # b => f[a] # f[b] } :
            len \in 0..maxLen }

InitDownvotes ==
    /\ \E classList \in ClassLists(ClassMaxLen) :
          probe = [classList |-> classList, level |-> 0, done |-> FALSE]
    /\ commentsTree = << >>
    /\ commentsInDOM = << >>
    /\ pc = "downvotes"
    /\ flatComments = << >>
    /\ topLevelCounter = 0
    /\ result = << >>
    /\ scoreCalls = {}
    /\ memo = << >>
    /\ response = << >>
    /\ page = << >>
    /\ toolCall = NotRunning
    /\ portSearch = NotRunning
    /\ httpCall = NotRunning

\* const downvotes = getDownvoteCount(commentTextDiv)
EvaluateDownvotes ==
    /\ pc = "downvotes"
    /\ ~probe.done
    /\ probe' = [probe EXCEPT !.level = getDownvoteCount(probe.classList),
                              !.done = TRUE]
    /\ UNCHANGED <<commentsTree, commentsInDOM, pc, flatComments, topLevelCounter,
                   result, scoreCalls, memo, response, page,
                   toolCall, portSearch, httpCall>>

NextDownvotes == EvaluateDownvotes

SpecDownvotes == InitDownvotes /\ [][NextDownvotes]_vars

----------------------------------------------------------------------------
(* getPostId *)

\* Inputs: URLs with scheme, host and the rest, and strings that are no URL
PostIdSchemes == {"http://", "https://"}
PostIdHosts ==
    {"news.ycombinator.com", "hn.algolia.com", "News.YCombinator.com",
     "example.com", "news.ycombinator.com.example.org"}
PostIdTails ==
    {"", "/", "/item", "/item?id=43448075", "/item?id=abc", "/item?id=12a",
     "/item?id=", "/item?id", "/item?p=2&id=45", "/item?id=12&id=abc",
     "/item?idx=5", "?id=7", "/item?id=123#c", "/item#?id=9"}
PostIdPlain ==
    {"", "0", "43448075", "0012", "12a", "a12", "abc", " 123", "12 3", "-5",
     "http", "https", "http123", "http://", "https://?id=1",
     "httpnews.ycombinator.com/item?id=1", "news.ycombinator.com/item?id=1",
     "ftp://news.ycombinator.com/item?id=1",
     "HTTPS://news.ycombinator.com/item?id=1"}
PostIdInputs ==
    { scheme \o host \o tail :
        scheme \in PostIdSchemes, host \in PostIdHosts, tail \in PostIdTails }
    \cup PostIdPlain

DecimalDigits == {"0", "1", "2", "3", "4", "5", "6", "7", "8", "9"}

\* String.prototype.startsWith
StartsWith(s, prefix) ==
    Len(s) >= Len(prefix) /\ SubSeq(s, 1, Len(prefix)) = prefix

\* index of the first character of s that is in chars, Len(s) + 1 if none is
FirstOf(s, chars) ==
    IF \E i \in 1..Len(s) : CharAt(s, i) \in chars
    THEN CHOOSE i \in 1..Len(s) :
             /\ CharAt(s, i) \in chars
             /\ \A j \in 1..(i - 1) : CharAt(s, j) \notin chars
    ELSE Len(s) + 1

\* new URL(url) for strings without port, credentials and escapes: it throws
\* unless url is http:// or https:// and a host; hostname is the host in
\* lower case, search the part from ? to # (empty for a lone ?)
NewURL(url) ==
    LET schemeLen == IF StartsWith(url, "https://") THEN 8
                     ELSE IF StartsWith(url, "http://") THEN 7 ELSE 0
        rest == SubSeq(url, schemeLen + 1, Len(url))
        hostEnd == FirstOf(rest, {"/", "?", "#"})
        afterHost == SubSeq(rest, hostEnd, Len(rest))
        beforeHash == SubSeq(afterHost, 1, FirstOf(afterHost, {"#"}) - 1)
        query == SubSeq(beforeHash, FirstOf(beforeHash, {"?"}), Len(beforeHash))
    IN IF schemeLen = 0 \/ hostEnd = 1
       THEN [threw |-> TRUE, hostname |-> "", search |-> ""]
       ELSE [threw |-> FALSE,
             hostname |-> ToLowerCase(SubSeq(rest, 1, hostEnd - 1)),
             search |-> IF Len(query) <= 1 THEN "" ELSE query]

NullResult == [isNull |-> TRUE, value |-> ""]
StringResult(s) == [isNull |-> FALSE, value |-> s]

\* new URLSearchParams(init).get(name), from the pair that starts init
RECURSIVE SearchParamsGet(_, _)
SearchParamsGet(init, name) ==
    IF Len(init) = 0 THEN NullResult
    ELSE LET pairEnd == FirstOf(init, {"&"})
             pair == SubSeq(init, 1, pairEnd - 1)
             nameEnd == FirstOf(pair, {"="})
         IN IF Len(pair) > 0 /\ SubSeq(pair, 1, nameEnd - 1) = name
            THEN StringResult(SubSeq(pair, nameEnd + 1, Len(pair)))
            ELSE SearchParamsGet(SubSeq(init, pairEnd + 1, Len(init)), name)

\* new URLSearchParams(urlObj.search): a leading ? is dropped
URLSearchParams(search) ==
    IF StartsWith(search, "?") THEN SubSeq(search, 2, Len(search)) ELSE search

extractPostIdFromUrl(url) ==
    LET urlObj == NewURL(url) IN
    IF urlObj.threw THEN NullResult
    ELSE IF urlObj.hostname = "news.ycombinator.com" \/ urlObj.hostname = "hn.algolia.com"
    THEN SearchParamsGet(URLSearchParams(urlObj.search), "id")
    ELSE NullResult

\* /^\d+$/.test(postId)
isValidPostId(postId) ==
    Len(postId) > 0 /\ \A i \in 1..Len(postId) : CharAt(postId, i) \in DecimalDigits

getPostId(input) ==
    IF StartsWith(input, "http") THEN extractPostIdFromUrl(input)
    ELSE IF isValidPostId(input) THEN StringResult(input)
    ELSE NullResult

InitPostId ==
    /\ \E input \in PostIdInputs :
          probe = [input |-> input, output |-> NullResult, done |-> FALSE]
    /\ commentsTree = << >>
    /\ commentsInDOM = << >>
    /\ pc = "postId"
    /\ flatComments = << >>
    /\ topLevelCounter = 0
    /\ result = << >>
    /\ scoreCalls = {}
    /\ memo = << >>
    /\ response = << >>
    /\ page = << >>
    /\ toolCall = NotRunning
    /\ portSearch = NotRunning
    /\ httpCall = NotRunning

\* const postId = getPostId(input)
EvaluatePostId ==
    /\ pc = "postId"
    /\ ~probe.done
    /\ probe' = [probe EXCEPT !.output = getPostId(probe.input), !.done = TRUE]
    /\ UNCHANGED <<commentsTree, commentsInDOM, pc, flatComments, topLevelCounter,
                   result, scoreCalls, memo, response, page,
                   toolCall, portSearch, httpCall>>

NextPostId == EvaluatePostId

SpecPostId == InitPostId /\ [][NextPostId]_vars

----------------------------------------------------------------------------
(* createCommentPathIdMapping of src/src/cli.js *)

\* the [path, id] pairs of the comments, in the order of the comments
createCommentPathIdMapping(comments) ==
    [i \in DOMAIN comments |-> << comments[i].path, comments[i].id >>]

----------------------------------------------------------------------------
(* Actions: one call of extractComments, phase by phase *)

NoProbe == << >>

Init ==
    /\ \E in \in Inputs(MaxNodes, MaxPos) \cup {<<ScenarioTree, ScenarioDom>>} :
          /\ commentsTree = in[1]
          /\ commentsInDOM = in[2]
    /\ pc = "flatten"
    /\ flatComments = << >>
    /\ topLevelCounter = 0
    /\ result = << >>
    /\ scoreCalls = {}
    /\ memo = << >>
    /\ probe = NoProbe
    /\ response = << >>
    /\ page = << >>
    /\ toolCall = NotRunning
    /\ portSearch = NotRunning
    /\ httpCall = NotRunning

\* const flatComments = []; flattenCommentTree(commentsTree, null)
Flatten ==
    /\ pc = "flatten"
    /\ flatComments' = flattenCommentTree(commentsTree, commentsInDOM, RootNode, Null)
    /\ pc' = "sort"
    /\ UNCHANGED <<commentsTree, commentsInDOM, topLevelCounter, result,
                   scoreCalls, memo, probe, response, page,
                   toolCall, portSearch, httpCall>>

\* flatComments.sort((a, b) => a.position - b.position)
Sort ==
    /\ pc = "sort"
    /\ flatComments' = SortByPosition(flatComments)
    /\ pc' = "paths"
    /\ UNCHANGED <<commentsTree, commentsInDOM, topLevelCounter, result,
                   scoreCalls, memo, probe, response, page,
                   toolCall, portSearch, httpCall>>

\* let topLevelCounter = 1; flatComments.forEach(...); return flatComments
AssignPathsAndScores ==
    /\ pc = "paths"
    /\ LET r == ForEachComment(flatComments, 1, TopLevelCounterStart,
                               commentsTree[RootNode].id, scoreCalls)
       IN /\ flatComments' = r.comments
          /\ topLevelCounter' = r.counter
          /\ scoreCalls' = r.calls
          /\ pc' = IF r.threw THEN "threw" ELSE "returned"
          /\ result' = IF r.threw THEN << >> ELSE << r.comments >>
          /\ commentsInDOM' = DomAfterForEach(commentsInDOM, r.comments)
    /\ UNCHANGED <<commentsTree, memo, probe, response, page,
                   toolCall, portSearch, httpCall>>

Next == Flatten \/ Sort \/ AssignPathsAndScores

Spec == Init /\ [][Next]_vars

\* one call on a raw API tree
InitRaw ==
    /\ \E in \in RawInputs(RawMaxNodes) :
          /\ commentsTree = in[1]
          /\ commentsInDOM = in[2]
    /\ pc = "flatten"
    /\ flatComments = << >>
    /\ topLevelCounter = 0
    /\ result = << >>
    /\ scoreCalls = {}
    /\ memo = << >>
    /\ probe = NoProbe
    /\ response = << >>
    /\ page = << >>
    /\ toolCall = NotRunning
    /\ portSearch = NotRunning
    /\ httpCall = NotRunning

SpecRaw == InitRaw /\ [][Next]_vars

\* stories with a story root that has no row and no story below it, from the
\* story without children to the stories with maxNodes nodes
StoryInputs(maxNodes, maxPos) ==
    UNION { InputsOf(WellFormed, n, maxPos) : n \in 0..maxNodes }

InitStory ==
    /\ \E in \in StoryInputs(StoryMaxNodes, StoryMaxPos) :
          /\ commentsTree = in[1]
          /\ commentsInDOM = in[2]
    /\ pc = "flatten"
    /\ flatComments = << >>
    /\ topLevelCounter = 0
    /\ result = << >>
    /\ scoreCalls = {}
    /\ memo = << >>
    /\ probe = NoProbe
    /\ response = << >>
    /\ page = << >>
    /\ toolCall = NotRunning
    /\ portSearch = NotRunning
    /\ httpCall = NotRunning

\* one call of extractComments on a story
SpecStory == InitStory /\ [][Next]_vars

----------------------------------------------------------------------------
(* The tool call get_hn_post_formatted_comments, from the download on *)

\* the line ends with a blank instead of a line feed
FormatLine_NoLineFeed(comment) ==
    "[" \o comment.path \o "] (score: " \o ToString(comment.score)
        \o ") <replies: " \o ToString(comment.replies)
        \o "> {downvotes: " \o ToString(comment.downvotes) \o "} "
        \o comment.author \o ": " \o comment.text \o " "

\* the template literal appended for one comment
FormatLine(comment) ==
    "[" \o comment.path \o "] (score: " \o ToString(comment.score)
        \o ") <replies: " \o ToString(comment.replies)
        \o "> {downvotes: " \o ToString(comment.downvotes) \o "} "
        \o comment.author \o ": " \o comment.text \o "\n"

\* let formattedComments = ''; postComments.forEach(comment => formattedComments += ...)
RECURSIVE FormatAll(_, _)
FormatAll(postComments, formattedComments) ==
    IF postComments = << >> THEN formattedComments
    ELSE FormatAll(Tail(postComments), formattedComments \o FormatLine(Head(postComments)))

InitTool ==
    /\ commentsTree \in ToolTrees(ToolMaxNodes)
    /\ page \in Pages(ToolMaxNodes, PageMaxRows)
    /\ commentsInDOM = EmptyMap
    /\ pc = "download"
    /\ flatComments = << >>
    /\ topLevelCounter = 0
    /\ result = << >>
    /\ scoreCalls = {}
    /\ memo = << >>
    /\ probe = NoProbe
    /\ response = << >>
    /\ toolCall = NotRunning
    /\ portSearch = NotRunning
    /\ httpCall = NotRunning

\* downloadPostComments: const commentsInDOM = await getCommentsFromDOM(postHtml)
GetCommentsFromDOM ==
    /\ pc = "download"
    /\ commentsInDOM' = getCommentsFromDOM(page)
    /\ pc' = "flatten"
    /\ UNCHANGED <<commentsTree, flatComments, topLevelCounter, result,
                   scoreCalls, memo, probe, response, page,
                   toolCall, portSearch, httpCall>>

\* the handler formats the comments and returns content and metadata
FormatComments ==
    /\ pc = "returned"
    /\ response' = << [formattedComments |-> FormatAll(result[1], ""),
                       commentCount |-> Len(result[1])] >>
    /\ pc' = "responded"
    /\ UNCHANGED <<commentsTree, commentsInDOM, flatComments, topLevelCounter,
                   result, scoreCalls, memo, probe, page,
                   toolCall, portSearch, httpCall>>

\* catch (error) { throw new Error(`Failed to download comment post: ...`) }
FailTool ==
    /\ pc = "threw"
    /\ pc' = "failed"
    /\ UNCHANGED <<commentsTree, commentsInDOM, flatComments, topLevelCounter,
                   result, scoreCalls, memo, probe, response, page,
                   toolCall, portSearch, httpCall>>

NextTool ==
    \/ GetCommentsFromDOM
    \/ Flatten
    \/ Sort
    \/ AssignPathsAndScores
    \/ FormatComments
    \/ FailTool

SpecTool == InitTool /\ [][NextTool]_vars

----------------------------------------------------------------------------
(* Repeated calls: extractComments is called again once a call has ended *)

InitCalls ==
    /\ \E in \in Inputs(CallsMaxNodes, CallsMaxPos) :
          /\ commentsTree = in[1]
          /\ commentsInDOM = in[2]
    /\ pc = "flatten"
    /\ flatComments = << >>
    /\ topLevelCounter = 0
    /\ result = << >>
    /\ scoreCalls = {}
    /\ memo = << >>
    /\ probe = NoProbe
    /\ response = << >>
    /\ page = << >>
    /\ toolCall = NotRunning
    /\ portSearch = NotRunning
    /\ httpCall = NotRunning

\* the next call: on the same inputs, on the inputs of the first call, or on
\* other inputs; memo keeps the first call's inputs and outcome, and whether
\* a call on other inputs has been made since
InvokeAgain ==
    /\ pc \in {"returned", "threw"}
    /\ LET first == IF memo = << >>
                     THEN [tree |-> commentsTree, dom |-> commentsInDOM,
                           outcome |-> pc, result |-> result, others |-> FALSE]
                     ELSE memo[1]
       IN \E in \in {<<commentsTree, commentsInDOM>>}
                    \cup {<<first.tree, first.dom>>} \cup OtherInputs :
             /\ commentsTree' = in[1]
             /\ commentsInDOM' = in[2]
             /\ memo' = << [first EXCEPT
                              !.others = @ \/ in # <<first.tree, first.dom>>] >>
    /\ pc' = "flatten"
    /\ flatComments' = << >>
    /\ result' = << >>
    /\ scoreCalls' = {}
    /\ UNCHANGED <<topLevelCounter, probe, response, page,
                   toolCall, portSearch, httpCall>>

NextCalls == Flatten \/ Sort \/ AssignPathsAndScores \/ InvokeAgain

SpecCalls == InitCalls /\ [][NextCalls]_vars

----------------------------------------------------------------------------
(* calculateScore evaluated alone, walking the grid of its arguments *)

InitScore ==
    /\ \E total \in 1..ScoreMaxTotal :
          probe = [position |-> 0, downvotes |-> 0, total |-> total,
                   score |-> 0, done |-> FALSE]
    /\ commentsTree = << >>
    /\ commentsInDOM = << >>
    /\ pc = "score"
    /\ flatComments = << >>
    /\ topLevelCounter = 0
    /\ result = << >>
    /\ scoreCalls = {}
    /\ memo = << >>
    /\ response = << >>
    /\ page = << >>
    /\ toolCall = NotRunning
    /\ portSearch = NotRunning
    /\ httpCall = NotRunning

Evaluated(p) == [p EXCEPT !.score = calculateScore(p, p.total), !.done = TRUE]

ScoreFrame == UNCHANGED <<commentsTree, commentsInDOM, pc, flatComments,
                          topLevelCounter, result, scoreCalls, memo, response, page,
                   toolCall, portSearch, httpCall>>

Evaluate ==
    /\ pc = "score"
    /\ ~probe.done
    /\ probe' = Evaluated(probe)
    /\ ScoreFrame

StepPosition ==
    /\ pc = "score"
    /\ probe.done
    /\ probe.position < ScoreMaxPos
    /\ probe' = Evaluated([probe EXCEPT !.position = @ + 1])
    /\ ScoreFrame

StepDownvotes ==
    /\ pc = "score"
    /\ probe.done
    /\ probe.downvotes + 1 \in AllDownvoteLevels
    /\ probe' = Evaluated([probe EXCEPT !.downvotes = @ + 1])
    /\ ScoreFrame

NextScore == Evaluate \/ StepPosition \/ StepDownvotes

SpecScore == InitScore /\ [][NextScore]_vars

----------------------------------------------------------------------------
(* The tool call and its timer: the CallToolRequestSchema handler of *)
(* src/server.js from the call to its end, the clock in milliseconds *)

TIMEOUT_MS == 30000
\* the clock advances by a third of the timeout
TickMs == TIMEOUT_MS \div 3
ClockMaxTicks == 5

WhiteSpace == {" ", "\n"}

RECURSIVE TrimStart(_)
TrimStart(s) ==
    IF s # "" /\ CharAt(s, 1) \in WhiteSpace
    THEN TrimStart(SubSeq(s, 2, Len(s))) ELSE s

RECURSIVE TrimEnd(_)
TrimEnd(s) ==
    IF s # "" /\ CharAt(s, Len(s)) \in WhiteSpace
    THEN TrimEnd(SubSeq(s, 1, Len(s) - 1)) ELSE s

\* String.prototype.trim
Trim(s) == TrimEnd(TrimStart(s))

\* String(request.params.arguments?.post_url)
StringOfPostUrl(arguments) ==
    IF "post_url" \in DOMAIN arguments THEN arguments.post_url ELSE Undefined

\* !postId
IsFalsy(postId) == postId.isNull \/ postId.value = ""

ToolUrls ==
    {"", " ", "43448075", " 43448075\n", "abc", "12a",
     "https://news.ycombinator.com/item?id=43448075",
     " https://hn.algolia.com/?id=7 ",
     "https://news.ycombinator.com/item?id=",
     "https://example.com/item?id=1"}

\* arguments objects with a post_url, and the one without
ToolArguments == { [post_url |-> u] : u \in ToolUrls } \cup { << >> }

InitTimeout ==
    /\ \E arguments \in ToolArguments :
          toolCall = [arguments |-> arguments, state |-> "called", error |-> "",
                      timer |-> "unset", due |-> 0, aborted |-> FALSE,
                      download |-> "none", clock |-> 0, log |-> << >>]
    /\ commentsTree = << >>
    /\ commentsInDOM = << >>
    /\ pc = "toolCall"
    /\ flatComments = << >>
    /\ topLevelCounter = 0
    /\ result = << >>
    /\ scoreCalls = {}
    /\ memo = << >>
    /\ probe = NoProbe
    /\ response = << >>
    /\ page = << >>
    /\ portSearch = NotRunning
    /\ httpCall = NotRunning

TimeoutFrame ==
    UNCHANGED <<commentsTree, commentsInDOM, pc, flatComments, topLevelCounter,
                result, scoreCalls, memo, probe, response, page,
                portSearch, httpCall>>

\* the handler up to its await: post_url, getPostId, new AbortController(),
\* setTimeout(() => controller.abort(), 30000), downloadPostComments(postId)
StartToolCall ==
    /\ pc = "toolCall"
    /\ toolCall.state = "called"
    /\ LET post_url == Trim(StringOfPostUrl(toolCall.arguments)) IN
       IF post_url = ""
       THEN toolCall' = [toolCall EXCEPT !.state = "threw",
                                         !.error = "PostURL is required"]
       ELSE IF IsFalsy(getPostId(post_url))
       THEN toolCall' = [toolCall EXCEPT !.state = "threw",
                                         !.error = "Invalid post URL"]
       ELSE toolCall' = [toolCall EXCEPT !.state = "awaiting",
                                         !.timer = "armed",
                                         !.due = toolCall.clock + TIMEOUT_MS,
                                         !.download = "pending",
                                         !.log = Append(@, "armed")]
    /\ TimeoutFrame

\* time passes; a timer that is due runs before more time passes
Tick ==
    /\ pc = "toolCall"
    /\ toolCall.state # "called"
    /\ toolCall.clock < ClockMaxTicks * TickMs
    /\ ~(toolCall.timer = "armed" /\ toolCall.clock >= toolCall.due)
    /\ toolCall' = [toolCall EXCEPT !.clock = @ + TickMs]
    /\ TimeoutFrame

\* the timer's callback: () => controller.abort().  controller.signal is
\* handed to nothing, so the abort reaches no download
TimerFires ==
    /\ pc = "toolCall"
    /\ toolCall.timer = "armed"
    /\ toolCall.clock >= toolCall.due
    /\ toolCall' = [toolCall EXCEPT !.timer = "fired", !.aborted = TRUE,
                                    !.log = Append(@, "fired")]
    /\ TimeoutFrame

\* finally { clearTimeout(timeoutId); controller.abort(); }
Finally(call) ==
    [call EXCEPT !.timer = IF @ = "armed" THEN "cleared" ELSE @,
                 !.aborted = TRUE,
                 !.log = IF call.timer = "armed" THEN Append(@, "cleared") ELSE @]

\* downloadPostComments resolves: the handler formats, returns and runs its
\* finally block
DownloadResolves ==
    /\ pc = "toolCall"
    /\ toolCall.state = "awaiting"
    /\ toolCall.download = "pending"
    /\ toolCall' = Finally([toolCall EXCEPT !.download = "resolved",
                                            !.state = "returned",
                                            !.log = Append(@, "completed")])
    /\ TimeoutFrame

\* downloadPostComments rejects: the catch block rethrows and the finally
\* block runs
DownloadRejects ==
    /\ pc = "toolCall"
    /\ toolCall.state = "awaiting"
    /\ toolCall.download = "pending"
    /\ toolCall' = Finally([toolCall EXCEPT !.download = "rejected",
                                            !.state = "threw",
                                            !.error = "Failed to download comment post",
                                            !.log = Append(@, "completed")])
    /\ TimeoutFrame

NextTimeout ==
    \/ StartToolCall
    \/ Tick
    \/ TimerFires
    \/ DownloadResolves
    \/ DownloadRejects

SpecTimeout == InitTimeout /\ [][NextTimeout]_vars

----------------------------------------------------------------------------
(* findAvailablePort of src/server.js: one probe server at a time *)

PortMaxAttempts == 2
StartPorts == {3000, 8080}

\* the ports a search from startPort can reach
PortsFrom(startPort) == startPort..(startPort + PortMaxAttempts + 1)

\* what testServer.listen(port) leads to: the 'listening' event or an
\* 'error' event with this code
ListenOutcomes == {"listening", "EADDRINUSE", "EACCES"}

ExhaustedMessage(maxAttempts) ==
    "Could not find available port after " \o ToString(maxAttempts) \o " attempts"

InitPort ==
    /\ \E startPort \in StartPorts, maxAttempts \in 1..PortMaxAttempts :
       \E listen \in [PortsFrom(startPort) -> ListenOutcomes] :
          portSearch = [startPort |-> startPort, maxAttempts |-> maxAttempts,
                        listen |-> listen, state |-> "called",
                        port |-> startPort, attempts |-> 0, probes |-> << >>,
                        testServer |-> "none", open |-> 0,
                        promise |-> "pending", reason |-> "", value |-> 0,
                        settles |-> 0]
    /\ commentsTree = << >>
    /\ commentsInDOM = << >>
    /\ pc = "findAvailablePort"
    /\ flatComments = << >>
    /\ topLevelCounter = 0
    /\ result = << >>
    /\ scoreCalls = {}
    /\ memo = << >>
    /\ probe = NoProbe
    /\ response = << >>
    /\ page = << >>
    /\ toolCall = NotRunning
    /\ httpCall = NotRunning

PortFrame ==
    UNCHANGED <<commentsTree, commentsInDOM, pc, flatComments, topLevelCounter,
                result, scoreCalls, memo, probe, response, page,
                toolCall, httpCall>>

\* tryPort(port): a new test server with its two handlers, and listen(port)
tryPort(search, port) ==
    [search EXCEPT !.port = port, !.probes = Append(@, port),
                   !.testServer = "binding", !.open = @ + 1]

\* if (attempts < maxAttempts)
MayRetry(search) == search.attempts < search.maxAttempts

\* reject(reason) of the promise; a settled promise ignores it
Reject(search, reason) ==
    [search EXCEPT !.settles = @ + 1,
                   !.promise = IF @ = "pending" THEN "rejected" ELSE @,
                   !.reason = IF search.promise = "pending" THEN reason ELSE @]

\* resolve(value) of the promise
Resolve(search, value) ==
    [search EXCEPT !.settles = @ + 1,
                   !.promise = IF @ = "pending" THEN "resolved" ELSE @,
                   !.value = IF search.promise = "pending" THEN value ELSE @]

\* new Promise((resolve, reject) => { ...; tryPort(currentPort); })
FindAvailablePort ==
    /\ pc = "findAvailablePort"
    /\ portSearch.state = "called"
    /\ portSearch' = tryPort([portSearch EXCEPT !.state = "searching"],
                             portSearch.startPort)
    /\ PortFrame

\* testServer.once('error', ...)
OnError ==
    /\ pc = "findAvailablePort"
    /\ portSearch.testServer = "binding"
    /\ portSearch.listen[portSearch.port] # "listening"
    /\ LET code == portSearch.listen[portSearch.port]
           closed == [portSearch EXCEPT !.testServer = "closed", !.open = @ - 1]
       IN IF code = "EADDRINUSE"
          THEN IF MayRetry(portSearch)
               THEN portSearch' = tryPort([closed EXCEPT !.attempts = @ + 1],
                                          portSearch.port + 1)
               ELSE portSearch' = Reject(closed, ExhaustedMessage(portSearch.maxAttempts))
          ELSE portSearch' = Reject([portSearch EXCEPT !.testServer = "failed"], code)
    /\ PortFrame

\* testServer.once('listening', ...): testServer.close(callback) is called
OnListening ==
    /\ pc = "findAvailablePort"
    /\ portSearch.testServer = "binding"
    /\ portSearch.listen[portSearch.port] = "listening"
    /\ portSearch' = [portSearch EXCEPT !.testServer = "closing"]
    /\ PortFrame

\* the callback of testServer.close: resolve(foundPort)
OnClosed ==
    /\ pc = "findAvailablePort"
    /\ portSearch.testServer = "closing"
    /\ portSearch' = Resolve([portSearch EXCEPT !.testServer = "closed",
                                                !.open = @ - 1],
                             portSearch.port)
    /\ PortFrame

NextPort ==
    \/ FindAvailablePort
    \/ OnError
    \/ OnListening
    \/ OnClosed

SpecPort == InitPort /\ [][NextPort]_vars

----------------------------------------------------------------------------
(* The summarize requests of the HTTP server: POST /api/summarize and the *)
(* JSON-RPC POST / with method invoke (src/unnamed/part_005)             *)

\* JSON values of the input parameter: strings and numbers
InputValues ==
    { [string |-> s] : s \in PostIdInputs } \cup { [number |-> n] : n \in {0, 43448075} }

\* objects with an input property, and the object without one
InputObjects == { [input |-> v] : v \in InputValues } \cup { << >> }

RestRequests == { [route |-> "REST", body |-> o] : o \in InputObjects }

RpcIds == {1, 7}

\* the params of an invoke request: with endpoint and params, or with the
\* endpoint alone
InvokeParams ==
    { [endpoint |-> e, params |-> o] :
        e \in {"summarize"}, o \in InputObjects }
    \cup { [endpoint |-> e] : e \in {"summarize", "other"} }
    \cup { [endpoint |-> "other", params |-> [input |-> [string |-> "43448075"]]] }

\* rpcRequest objects with method invoke: with or without id, with or
\* without params
RpcRequests ==
    { [route |-> "RPC", body |-> [id |-> i, method |-> "invoke", params |-> p]] :
        i \in RpcIds, p \in InvokeParams }
    \cup { [route |-> "RPC", body |-> [method |-> "invoke", params |-> p]] :
             p \in InvokeParams }
    \cup { [route |-> "RPC", body |-> [id |-> i, method |-> "invoke"]] : i \in RpcIds }

\* !input
IsFalsyInput(v) ==
    \/ "string" \in DOMAIN v /\ v.string = ""
    \/ "number" \in DOMAIN v /\ v.number = 0

\* how the handler goes on for the object that should hold the input:
\* "missing" (!input), "typeError" (getPostId of a number: input.startsWith
\* is not a function), "invalid" (!postId) or "download"
InputCheck(object) ==
    IF "input" \notin DOMAIN object \/ IsFalsyInput(object.input) THEN "missing"
    ELSE IF "number" \in DOMAIN object.input THEN "typeError"
    ELSE IF IsFalsy(getPostId(object.input.string)) THEN "invalid"
    ELSE "download"

\* res.status(status).json(body)
RestResponse(status, body) == [status |-> status, body |-> body]

RestError(status, error) == RestResponse(status, [error |-> error])

RestSuccess == RestResponse(200, [status |-> "success"])

\* res.json({jsonrpc: '2.0', id: rpcRequest.id, error: {code, message}}); a
\* request without id gives a response without id
RpcResponse(rpcRequest, content) ==
    [status |-> 200,
     body |-> IF "id" \in DOMAIN rpcRequest
              THEN [jsonrpc |-> "2.0", id |-> rpcRequest.id] @@ content
              ELSE [jsonrpc |-> "2.0"] @@ content]

RpcError(rpcRequest, code) == RpcResponse(rpcRequest, [error |-> [code |-> code]])

RpcSuccess(rpcRequest) == RpcResponse(rpcRequest, [result |-> [status |-> "success"]])

InitHttp ==
    /\ \E request \in RestRequests \cup RpcRequests :
          httpCall = [request |-> request, state |-> "received",
                      download |-> "none", responses |-> << >>]
    /\ commentsTree = << >>
    /\ commentsInDOM = << >>
    /\ pc = "http"
    /\ flatComments = << >>
    /\ topLevelCounter = 0
    /\ result = << >>
    /\ scoreCalls = {}
    /\ memo = << >>
    /\ probe = NoProbe
    /\ response = << >>
    /\ page = << >>
    /\ toolCall = NotRunning
    /\ portSearch = NotRunning

HttpFrame ==
    UNCHANGED <<commentsTree, commentsInDOM, pc, flatComments, topLevelCounter,
                result, scoreCalls, memo, probe, response, page,
                toolCall, portSearch>>

\* the handler answers and ends
Respond(call, answer) ==
    [call EXCEPT !.state = "done", !.responses = Append(@, answer)]

\* the handler starts downloadPostComments(postId) and awaits it
AwaitDownload(call) == [call EXCEPT !.state = "awaiting", !.download = "pending"]

\* app.post('/api/summarize', ...) up to its await
ReceiveRest ==
    /\ pc = "http"
    /\ httpCall.state = "received"
    /\ httpCall.request.route = "REST"
    /\ LET check == InputCheck(httpCall.request.body) IN
       httpCall' =
          CASE check = "missing" ->
                  Respond(httpCall, RestError(400, "Missing input parameter"))
            [] check = "typeError" ->
                  Respond(httpCall, RestError(500, "Failed to process request"))
            [] check = "invalid" ->
                  Respond(httpCall, RestError(400, "Invalid input"))
            [] OTHER -> AwaitDownload(httpCall)
    /\ HttpFrame

\* app.post('/', ...) for method invoke, up to its await; destructuring a
\* params object that is absent throws a TypeError inside the try block
ReceiveRpc ==
    /\ pc = "http"
    /\ httpCall.state = "received"
    /\ httpCall.request.route = "RPC"
    /\ LET rpcRequest == httpCall.request.body IN
       httpCall' =
          IF "params" \notin DOMAIN rpcRequest
          THEN Respond(httpCall, RpcError(rpcRequest, -32603))
          ELSE IF rpcRequest.params.endpoint # "summarize"
          THEN Respond(httpCall, RpcError(rpcRequest, -32601))
          ELSE IF "params" \notin DOMAIN rpcRequest.params
          THEN Respond(httpCall, RpcError(rpcRequest, -32603))
          ELSE LET check == InputCheck(rpcRequest.params.params) IN
               CASE check = "missing" ->
                       Respond(httpCall, RpcError(rpcRequest, -32602))
                 [] check = "typeError" ->
                       Respond(httpCall, RpcError(rpcRequest, -32603))
                 [] check = "invalid" ->
                       Respond(httpCall, RpcError(rpcRequest, -32602))
                 [] OTHER -> AwaitDownload(httpCall)
    /\ HttpFrame

\* downloadPostComments resolves: formatForClaude, then the success answer
DownloadCompleted ==
    /\ pc = "http"
    /\ httpCall.state = "awaiting"
    /\ httpCall.download = "pending"
    /\ LET resolved == [httpCall EXCEPT !.download = "resolved"] IN
       httpCall' =
          IF httpCall.request.route = "REST"
          THEN Respond(resolved, RestSuccess)
          ELSE Respond(resolved, RpcSuccess(httpCall.request.body))
    /\ HttpFrame

\* downloadPostComments rejects (a fetch failed or extractComments threw):
\* the catch block answers
DownloadFailed ==
    /\ pc = "http"
    /\ httpCall.state = "awaiting"
    /\ httpCall.download = "pending"
    /\ LET rejected == [httpCall EXCEPT !.download = "rejected"] IN
       httpCall' =
          IF httpCall.request.route = "REST"
          THEN Respond(rejected, RestError(500, "Failed to process request"))
          ELSE Respond(rejected, RpcError(httpCall.request.body, -32603))
    /\ HttpFrame

NextHttp ==
    \/ ReceiveRest
    \/ ReceiveRpc
    \/ DownloadCompleted
    \/ DownloadFailed

SpecHttp == InitHttp /\ [][NextHttp]_vars

----------------------------------------------------------------------------
(* Properties.  The API tree is read through the definitions below, which  *)
(* do not use the operators of extractComments; strings are read with the  *)
(* character helpers CharAt, ToLowerCase and StartsWith.                   *)

Returned == pc = "returned"
Ended == pc \in {"returned", "threw"}
Out == result[1]
OutIndexes == 1..Len(Out)

Nodes == DOMAIN commentsTree
IsComment(n) == commentsTree[n].type # "story"
\* node n has id "n"; its row, if any, is stored under the key n
InDom(n) == n \in DOMAIN commentsInDOM
NodeOf(id) == CHOOSE n \in Nodes : commentsTree[n].id = id
ParentNode(n) ==
    CHOOSE k \in Nodes :
        \E i \in DOMAIN commentsTree[k].children : commentsTree[k].children[i] = n

RECURSIVE ProperAncestors(_)
ProperAncestors(n) ==
    IF n = RootNode THEN {} ELSE {ParentNode(n)} \cup ProperAncestors(ParentNode(n))

\* the comment's node is a child of the root in the API tree
IsTopLevel(c) == ParentNode(NodeOf(c.id)) = RootNode
RootId == commentsTree[RootNode].id

\* C1: whenever extractComments returns, the returned sequence is sorted
\* non-decreasing by position.
C1_SortedByPosition ==
    Returned => \A i \in 1..(Len(Out) - 1) : Out[i].position <= Out[i + 1].position

\* three comments returned, in another order than the traversal pushed them
C1_Witness ==
    /\ Returned
    /\ Len(Out) >= 3
    /\ \E i \in 1..(Len(Out) - 1) :
          /\ NodeOf(Out[i].id) > NodeOf(Out[i + 1].id)
          /\ Out[i].position < Out[i + 1].position

C2_Survivors ==
    { n \in Nodes : /\ IsComment(n)
                    /\ InDom(n)
                    /\ \A a \in ProperAncestors(n) : IsComment(a) => InDom(a) }

\* C2: the ids of the output are exactly the ids of the non-story nodes that
\* have a DOM entry and whose ancestor comments all have one; a node without
\* entry hides its descendants, and the story root is never emitted.
C2_ExactlySurvivors ==
    Returned => { Out[i].id : i \in OutIndexes } = { commentsTree[n].id : n \in C2_Survivors }

\* a comment with a DOM entry under a comment without one, the root's id a key
\* of the DOM map, and something returned
C2_Witness ==
    /\ Returned
    /\ Out # << >>
    /\ InDom(RootNode)
    /\ \E n \in Nodes \ {RootNode} :
          /\ InDom(n)
          /\ ParentNode(n) # RootNode
          /\ ~InDom(ParentNode(n))

OthersWithId(i, id) == { j \in OutIndexes \ {i} : Out[j].id = id }

\* C3 as claimed: every parentId of the output is null or the id of exactly
\* one other output comment, and top-level comments carry parentId null.
C3_TopLevelParentNull ==
    Returned =>
        \A i \in OutIndexes :
            /\ Out[i].parentId = Null
               \/ Cardinality(OthersWithId(i, Out[i].parentId)) = 1
            /\ IsTopLevel(Out[i]) => Out[i].parentId = Null

\* C3 as amended: a top-level comment carries the id of the story root as
\* parentId (not null); every other comment's parentId is the id of its API
\* parent and of exactly one other comment of the output.
C3_ParentIsRootOrOneOther ==
    Returned =>
        \A i \in OutIndexes :
            IF IsTopLevel(Out[i])
            THEN Out[i].parentId = RootId /\ Out[i].parentId # Null
            ELSE /\ Out[i].parentId = commentsTree[ParentNode(NodeOf(Out[i].id))].id
                 /\ Cardinality(OthersWithId(i, Out[i].parentId)) = 1

\* a top-level comment, a reply and a reply to the reply are returned
C3_Witness ==
    /\ Returned
    /\ \E i, j, k \in OutIndexes :
          /\ IsTopLevel(Out[i])
          /\ Out[j].parentId = Out[i].id
          /\ Out[k].parentId = Out[j].id

TopLevelOut == SelectSeq(Out, IsTopLevel)

\* C4: the paths of the top-level output comments, in output order, are
\* "1", "2", ..., "k".
C4_TopLevelPathsCount ==
    Returned => \A i \in 1..Len(TopLevelOut) : TopLevelOut[i].path = ToString(i)

\* two top-level comments with a reply between them in the output
C4_Witness ==
    /\ Returned
    /\ \E i, j, k \in OutIndexes :
          /\ i < j /\ j < k
          /\ IsTopLevel(Out[i]) /\ ~IsTopLevel(Out[j]) /\ IsTopLevel(Out[k])

ChildrenInOut(c) == SelectSeq(Out, LAMBDA d : d.parentId = c.id)

\* C5: the surviving children of an output comment with final path P have the
\* paths P.1, ..., P.n in their output order.
C5_ChildPathsExtendParent ==
    Returned =>
        \A i \in OutIndexes :
            \A k \in 1..Len(ChildrenInOut(Out[i])) :
                ChildrenInOut(Out[i])[k].path = Out[i].path \o "." \o ToString(k)

\* C6: every score calculateScore yields is an integer from 0 to 1000, for
\* every position, downvote level 0..9 and total > 0.
C6_ScoreInRange == probe.done => probe.score \in 0..1000

\* a score for a position beyond the total, at the highest downvote level
C6_Witness ==
    /\ probe.done
    /\ probe.position > probe.total
    /\ probe.downvotes = 9

\* C7: with the total fixed, the score never grows when the position grows
\* with the downvote level fixed, nor when the downvote level grows with the
\* position fixed.
C7_ScoreMonotone ==
    [][ ( /\ probe.done /\ probe'.done
          /\ probe'.total = probe.total
          /\ \/ probe'.position > probe.position /\ probe'.downvotes = probe.downvotes
             \/ probe'.downvotes > probe.downvotes /\ probe'.position = probe.position )
        => probe'.score <= probe.score ]_vars

\* a score strictly between 0 and 1000, reached by steps of both kinds
C7_Witness ==
    /\ probe.done
    /\ probe.position > 0
    /\ probe.downvotes > 0
    /\ probe.score > 0
    /\ probe.score < 1000

\* floor(1000 - position * 1000 / total), by the ceiling of the quotient
C8_D(position, total) == 1000 - (-((-(position * 1000)) \div total))

\* floor(max(D - (D / 10) * downvotes, 0))
C8_Score(position, downvotes, total) ==
    LET D == C8_D(position, total)
        tenfold == 10 * D - D * downvotes
    IN IF tenfold <= 0 THEN 0 ELSE (tenfold - (tenfold % 10)) \div 10

\* C8: every output comment's score is floor(max(D - (D/10)*downvotes, 0))
\* with D = floor(1000 - position*1000/totalCount) and totalCount the length
\* of the returned list; position 0 with downvote level 0 scores 1000.
C8_ScoreOfOutput ==
    Returned =>
        \A i \in OutIndexes :
            /\ Out[i].score = C8_Score(Out[i].position, Out[i].downvotes, Len(Out))
            /\ (Out[i].position = 0 /\ Out[i].downvotes = 0) => Out[i].score = 1000

\* fewer comments returned than the DOM map has entries and than the tree has
\* nodes, a downvoted reply with a sibling group smaller than the output
C8_Witness ==
    /\ Returned
    /\ Len(Out) < Cardinality(DOMAIN commentsInDOM)
    /\ \E i \in OutIndexes :
          /\ ~IsTopLevel(Out[i])
          /\ Out[i].position > 0
          /\ Out[i].downvotes > 0
          /\ Out[i].score > 0
          /\ Len(SelectSeq(Out, LAMBDA d : d.parentId = Out[i].parentId)) < Len(Out)

IsScenario == commentsTree = ScenarioTree /\ commentsInDOM = ScenarioDom

OutIs(ids, paths, scores) ==
    /\ Returned
    /\ Len(Out) = Len(ids)
    /\ \A i \in OutIndexes :
          /\ Out[i].id = ids[i]
          /\ Out[i].path = paths[i]
          /\ Out[i].score = scores[i]

\* C9 as claimed: the worked example returns A, B, C with paths "1", "2",
\* "2.1" and scores 1000, 667, 167.
C9_ScenarioAsClaimed ==
    (IsScenario /\ Ended) => OutIs(<<"1", "2", "3">>, <<"1", "2", "2.1">>, <<1000, 667, 167>>)

\* C9 as amended: the worked example returns A, B, C with paths "1", "2",
\* "2.1" and scores 1000, 666, 166.
C9_ScenarioAmended ==
    (IsScenario /\ Ended) => OutIs(<<"1", "2", "3">>, <<"1", "2", "2.1">>, <<1000, 666, 166>>)

\* the call on the worked example has returned
C9_Witness == IsScenario /\ Returned

SameAsFirst ==
    /\ memo # << >>
    /\ memo[1].tree = commentsTree
    /\ memo[1].dom = commentsInDOM

\* C10: a call on the inputs of the first call ends as the first call did and
\* returns an equal list, whatever calls were made in between.
C10_SameInputsSameOutput ==
    (Ended /\ SameAsFirst) => (pc = memo[1].outcome /\ result = memo[1].result)

\* a later call on the first call's inputs, after a call on other inputs, has
\* returned two or more comments, one of them top-level
C10_Witness ==
    /\ Returned
    /\ SameAsFirst
    /\ memo[1].others
    /\ Len(Out) >= 2
    /\ \E i \in OutIndexes : IsTopLevel(Out[i])

\* C11: no step of extractComments changes the API tree or the DOM map,
\* whether the call returns or throws; paths and scores are written to the
\* comments of flatComments only.
C11_InputsUnchanged ==
    [][commentsTree' = commentsTree /\ commentsInDOM' = commentsInDOM]_vars

\* a call that threw after it had written the path and score of a comment
C11_Witness ==
    /\ pc = "threw"
    /\ \E i \in DOMAIN flatComments :
          flatComments[i].path # EmptyPath /\ flatComments[i].score > 0

\* the parentId the traversal hands to node n: null for the root, the id of
\* the node's parent in the API tree for every other node
C12_ParentIdOf(n) ==
    IF n = RootNode THEN Null ELSE commentsTree[ParentNode(n)].id

\* surviving comments whose parentId is neither the root's id nor the id of
\* another surviving comment
C12_Dangling ==
    { n \in C2_Survivors :
        /\ C12_ParentIdOf(n) # RootId
        /\ ~\E m \in C2_Survivors \ {n} : commentsTree[m].id = C12_ParentIdOf(n) }

\* C12: when a surviving comment's parentId is neither the root's id nor the
\* id of another surviving comment the call throws and returns no list; a
\* returned list holds no comment with such a parentId.
C12_MissingParentThrows ==
    /\ (Ended /\ C12_Dangling # {}) => (pc = "threw" /\ result = << >>)
    /\ Returned =>
          \A i \in OutIndexes :
              \/ Out[i].parentId = RootId
              \/ \E j \in OutIndexes \ {i} : Out[j].id = Out[i].parentId

\* the call threw on the child of a nested story after a top-level comment
\* had received its path
C12_Witness ==
    /\ pc = "threw"
    /\ commentsTree[RootNode].type = "story"
    /\ \E n \in C12_Dangling : commentsTree[ParentNode(n)].type = "story"
    /\ \E i \in DOMAIN flatComments : flatComments[i].path = "1"

\* the comments of the API tree that have no id
C13_NoId ==
    { n \in Nodes : commentsTree[n].type # "story" /\ "id" \notin DOMAIN commentsTree[n] }

\* C13: a call on an API tree with a non-story node without id throws; it
\* does not return.
C13_NoIdFailsFast == (Ended /\ C13_NoId # {}) => pc = "threw"

\* the node of the API tree an output comment was made from
C14_NodeOf(id) ==
    CHOOSE n \in Nodes :
        IF "id" \in DOMAIN commentsTree[n] THEN commentsTree[n].id = id
        ELSE id = Undefined

\* the immediate children of node n, with or without DOM entry
C14_Children(n) ==
    IF "children" \in DOMAIN commentsTree[n]
    THEN { commentsTree[n].children[i] : i \in DOMAIN commentsTree[n].children }
    ELSE {}

\* C14: every output comment's replies is the number of immediate children
\* of its node in the API tree, children without DOM entry included, and 0
\* for a node without children list.
C14_RepliesCountChildren ==
    Returned =>
        \A i \in OutIndexes :
            Out[i].replies = Cardinality(C14_Children(C14_NodeOf(Out[i].id)))

\* a returned comment with two children of which one has no DOM entry, and a
\* returned comment whose node has no children list
C14_Witness ==
    /\ Returned
    /\ \E i \in OutIndexes :
          /\ Out[i].replies = 2
          /\ \E m \in C14_Children(C14_NodeOf(Out[i].id)) : m \notin DOMAIN commentsInDOM
    /\ \E i \in OutIndexes :
          /\ Out[i].replies = 0
          /\ "children" \notin DOMAIN commentsTree[C14_NodeOf(Out[i].id)]

\* the comment carries the id and author of node n, the record stored under
\* n's id and the id of n's parent in the API tree
C15_MadeFrom(c, n) ==
    /\ c.id = commentsTree[n].id
    /\ c.author = commentsTree[n].author
    /\ c.position = commentsInDOM[n].position
    /\ c.text = commentsInDOM[n].text
    /\ c.downvotes = commentsInDOM[n].downvotes
    /\ c.parentId = commentsTree[ParentNode(n)].id

C15_Blank(c) == [c EXCEPT !.path = EmptyPath, !.score = 0]

\* C15: every comment of a returned list carries the id and author of its
\* API node, the position, text and downvotes of the DOM record under that
\* id and the id of the node's API parent; the pass that assigns paths and
\* scores changes no other field of any comment and keeps the list's order.
C15_FieldsCarriedAndKept ==
    [][ /\ pc' = "returned" =>
              \A i \in DOMAIN result'[1] :
                  \E n \in Nodes \ {RootNode} :
                      /\ n \in DOMAIN commentsInDOM
                      /\ C15_MadeFrom(result'[1][i], n)
        /\ pc = "paths" =>
              /\ Len(flatComments') = Len(flatComments)
              /\ \A i \in DOMAIN flatComments :
                    C15_Blank(flatComments'[i]) = C15_Blank(flatComments[i]) ]_vars

\* a returned list of three: a downvoted reply ahead of a comment of a lower
\* node number, and a DOM map that holds a record for the root's id too
C15_Witness ==
    /\ Returned
    /\ Len(Out) = 3
    /\ InDom(RootNode)
    /\ \E i, j \in OutIndexes :
          /\ i < j
          /\ NodeOf(Out[i].id) > NodeOf(Out[j].id)
          /\ ~IsTopLevel(Out[i])
          /\ Out[i].downvotes > 0

\* the lines of a text: the pieces ended by a line feed, and what follows the
\* last line feed when that is not empty
RECURSIVE C16_Lines(_)
C16_Lines(s) ==
    IF Len(s) = 0 THEN << >>
    ELSE IF \E i \in 1..Len(s) : CharAt(s, i) = "\n"
    THEN LET cut == CHOOSE i \in 1..Len(s) :
                        /\ CharAt(s, i) = "\n"
                        /\ \A j \in 1..(i - 1) : CharAt(s, j) # "\n"
         IN << SubSeq(s, 1, cut - 1) >> \o C16_Lines(SubSeq(s, cut + 1, Len(s)))
    ELSE << s >>

C16_Line(c) ==
    "[" \o c.path \o "] (score: " \o ToString(c.score) \o ") <replies: "
        \o ToString(c.replies) \o "> {downvotes: " \o ToString(c.downvotes)
        \o "} " \o c.author \o ": " \o c.text

\* C16: the formatted text of a tool call has one line per returned comment,
\* in the order of the returned list, each "[path] (score: S) <replies: R>
\* {downvotes: D} author: text" of that comment; commentCount is the number
\* of lines.
C16_OneLinePerComment ==
    pc = "responded" =>
        LET lines == C16_Lines(response[1].formattedComments) IN
        /\ Len(lines) = Len(Out)
        /\ \A i \in OutIndexes : lines[i] = C16_Line(Out[i])
        /\ response[1].commentCount = Len(lines)

\* a response for a comment and its reply, whose texts held line feeds in the
\* page, the reply downvoted
C16_Witness ==
    /\ pc = "responded"
    /\ Len(Out) = 2
    /\ Out[2].path = "1.1"
    /\ Out[2].downvotes > 0
    /\ \E i \in DOMAIN page :
          /\ "commtext" \in DOMAIN page[i]
          /\ \E j \in 1..Len(page[i].commtext.innerHTML) :
                CharAt(page[i].commtext.innerHTML, j) = "\n"
    /\ \E j \in 1..Len(Out[2].text) : CharAt(Out[2].text, j) = " "

\* C17: whatever the input string, getPostId returns null or a non-empty
\* string of decimal digits; digits-only inputs are returned unchanged, and an
\* input that starts with http yields a string only for a Hacker News URL.
C17_NullOrValidId ==
    (pc = "postId" /\ probe.done) =>
        /\ probe.output.isNull \/ isValidPostId(probe.output.value)
        /\ isValidPostId(probe.input) => probe.output = StringResult(probe.input)
        /\ (StartsWith(probe.input, "http") /\ ~probe.output.isNull) =>
               \E scheme \in PostIdSchemes, tail \in PostIdTails :
                   \/ ToLowerCase(probe.input) = scheme \o "news.ycombinator.com" \o tail
                   \/ ToLowerCase(probe.input) = scheme \o "hn.algolia.com" \o tail

\* the palette classes in the order of their levels 0..9
C18_Palette ==
    <<"c00", "c5a", "c73", "c82", "c88", "c9c", "cae", "cbe", "cce", "cdd">>

\* the palette entries an element carries, a class name in capitals counted
\* as the palette class it spells
C18_PaletteClassesOf(classList) ==
    { l \in DOMAIN C18_Palette :
        \E i \in DOMAIN classList : ToLowerCase(classList[i]) = C18_Palette[l] }

\* C18: getDownvoteCount yields a level in 0..9: the level of the palette
\* class the element carries, whatever its other classes and their order,
\* and 0 for an element without palette class.
C18_LevelOfPaletteClass ==
    (pc = "downvotes" /\ probe.done) =>
        /\ probe.level \in 0..9
        /\ \A l \in DOMAIN C18_Palette :
              C18_PaletteClassesOf(probe.classList) = {l} => probe.level = l - 1
        /\ C18_PaletteClassesOf(probe.classList) = {} => probe.level = 0

\* row i of the page is a comment row that is neither collapsed nor hidden,
\* has a comment text and carries the id attribute of key
C19_ShownRowOf(i, key) ==
    /\ \A j \in DOMAIN page[i].classList : page[i].classList[j] \notin {"coll", "noshow"}
    /\ "commtext" \in DOMAIN page[i]
    /\ "id" \in DOMAIN page[i]
    /\ page[i].id = ToString(key)

\* C19: every record of the extraction result belongs to a row that is not
\* collapsed, not hidden and has a comment text, and its position is that
\* row's 0-based index among all comment rows of the page; the positions are
\* non-negative, pairwise distinct and increase in document order.
C19_RecordsOfShownRows ==
    pc \notin {"download"} =>
        /\ \A key \in DOMAIN commentsInDOM :
              /\ commentsInDOM[key].position >= 0
              /\ \E i \in DOMAIN page :
                    C19_ShownRowOf(i, key) /\ commentsInDOM[key].position = i - 1
        /\ \A k1, k2 \in DOMAIN commentsInDOM :
              k1 # k2 => commentsInDOM[k1].position # commentsInDOM[k2].position
        /\ \A k1, k2 \in DOMAIN commentsInDOM : \A i1, i2 \in DOMAIN page :
              (C19_ShownRowOf(i1, k1) /\ C19_ShownRowOf(i2, k2) /\ i1 < i2)
                  => commentsInDOM[k1].position < commentsInDOM[k2].position

\* the page's first row is collapsed and a later row has a record, so the
\* record's position is not its rank among the records
C19_Witness ==
    /\ pc = "flatten"
    /\ Len(page) >= 2
    /\ \E j \in DOMAIN page[1].classList : page[1].classList[j] = "coll"
    /\ \E key \in DOMAIN commentsInDOM : commentsInDOM[key].position >= 1

\* s is a non-empty sequence of positive integers in decimal, joined by dots
C20_IsPath(s) ==
    /\ Len(s) > 0
    /\ \A i \in 1..Len(s) : CharAt(s, i) \in DecimalDigits \cup {"."}
    /\ CharAt(s, 1) # "." /\ CharAt(s, Len(s)) # "."
    /\ \A i \in 1..(Len(s) - 1) : ~(CharAt(s, i) = "." /\ CharAt(s, i + 1) = ".")
    /\ \A i \in 1..Len(s) :
          (CharAt(s, i) = "0" /\ (i = 1 \/ CharAt(s, i - 1) = "."))  => FALSE

\* a comment stands before its parent in the sorted list
C20_ReplyBeforeParent ==
    \E i, j \in DOMAIN flatComments :
        i < j /\ flatComments[i].parentId = flatComments[j].id

\* C20: in every returned list each path is a non-empty dot-delimited
\* sequence of positive integers and each reply's path is its parent's final
\* path, a dot and a 1-based integer, also when a reply has a lower position
\* than its parent; a call in which a comment is processed before its parent
\* throws.
C20_PathsResolvedOrThrows ==
    /\ Returned =>
          \A i \in OutIndexes :
              /\ C20_IsPath(Out[i].path)
              /\ ~IsTopLevel(Out[i]) =>
                    \E j \in OutIndexes, k \in OutIndexes :
                        /\ Out[j].id = Out[i].parentId
                        /\ Out[i].path = Out[j].path \o "." \o ToString(k)
    /\ (Ended /\ C20_ReplyBeforeParent) => pc = "threw"

\* the place of a comment in the depth-first pre-order walk of the API tree:
\* nodes are numbered in pre-order
C21_Emitted(c) == NodeOf(c.id)

\* C21: in a returned list comments with equal positions stand in the order
\* of the depth-first pre-order walk that emitted them, and comments with
\* different positions stand in the order of their positions whatever the
\* walk's order.
C21_TiesKeepEmissionOrder ==
    Returned =>
        \A i, j \in OutIndexes :
            i < j =>
                \/ Out[i].position < Out[j].position
                \/ /\ Out[i].position = Out[j].position
                   /\ C21_Emitted(Out[i]) < C21_Emitted(Out[j])

\* a returned list with two comments of one position and with a comment that
\* the walk emitted later standing before one emitted earlier
C21_Witness ==
    /\ Returned
    /\ \E i, j \in OutIndexes : i < j /\ Out[i].position = Out[j].position
    /\ \E i, j \in OutIndexes :
          /\ i < j
          /\ Out[i].position < Out[j].position
          /\ C21_Emitted(Out[i]) > C21_Emitted(Out[j])

\* C22: a call in which no comment survives the merge returns the empty
\* sequence, does not throw and never calls calculateScore; every call of
\* calculateScore is made with a total of at least 1.
C22_EmptyResultNeverScored ==
    /\ (Ended /\ C2_Survivors = {}) =>
          /\ Returned
          /\ Out = << >>
          /\ scoreCalls = {}
    /\ \A total \in scoreCalls : total >= 1

\* a call has returned nothing for a story whose comments have rows in the
\* DOM map but whose top-level comments have none
C22_Witness ==
    /\ Returned
    /\ commentsTree[RootNode].type = "story"
    /\ commentsTree[RootNode].children # << >>
    /\ DOMAIN commentsInDOM # {}
    /\ C2_Survivors = {}
    /\ Out = << >>
    /\ scoreCalls = {}

\* every surviving reply of a surviving parent has a greater position than
\* its parent
C23_RepliesFollowParents ==
    \A n \in C2_Survivors \ {RootNode} :
        ParentNode(n) \in C2_Survivors =>
            commentsInDOM[ParentNode(n)].position < commentsInDOM[n].position

\* the ids that the path-to-id table gives for a path
C23_IdsOf(table, path) ==
    { table[i][2] : i \in { j \in DOMAIN table : table[j][1] = path } }

\* C23: when every surviving reply has a greater position than its surviving
\* parent (ids being pairwise distinct), no two comments of a returned list
\* have the same path, and the table of createCommentPathIdMapping has one
\* entry per comment and gives exactly one id, the comment's, for each path.
C23_PathsDistinct ==
    (Returned /\ C23_RepliesFollowParents) =>
        /\ \A i, j \in OutIndexes : Out[i].path = Out[j].path => i = j
        /\ LET table == createCommentPathIdMapping(Out) IN
              /\ Len(table) = Len(Out)
              /\ \A i \in OutIndexes : C23_IdsOf(table, Out[i].path) = {Out[i].id}

\* a returned list in which a comment has two replies, all three with rows,
\* the replies behind their parent
C23_Witness ==
    /\ Returned
    /\ C23_RepliesFollowParents
    /\ \E i, j, k \in OutIndexes :
          /\ j # k
          /\ Out[j].parentId = Out[i].id
          /\ Out[k].parentId = Out[i].id
          /\ Len(createCommentPathIdMapping(Out)) >= 3

\* the indexes of the dots of s
C24_Dots(s) == { i \in 1..Len(s) : CharAt(s, i) = "." }

\* the number of dot-separated components of s
C24_Components(s) == IF s = "" THEN 0 ELSE 1 + Cardinality(C24_Dots(s))

\* s without its last component and the dot before it
C24_WithoutLast(s) ==
    LET last == CHOOSE i \in C24_Dots(s) : \A j \in C24_Dots(s) : j <= i
    IN SubSeq(s, 1, last - 1)

\* the depth of a node in the API tree: 1 for the children of the root
C24_Depth(n) == Cardinality(ProperAncestors(n))

\* C24: when every surviving reply has a greater position than its surviving
\* parent, the path of each comment of a returned list has as many
\* dot-separated components as the comment's depth in the API tree, and the
\* path of a comment that is not top-level, without its last component, is
\* the path of its parent in the API tree.
C24_PathDepth ==
    (Returned /\ C23_RepliesFollowParents) =>
        \A i \in OutIndexes :
            LET n == NodeOf(Out[i].id) IN
            /\ C24_Components(Out[i].path) = C24_Depth(n)
            /\ ~IsTopLevel(Out[i]) =>
                  /\ C24_Dots(Out[i].path) # {}
                  /\ \E j \in OutIndexes :
                        /\ NodeOf(Out[j].id) = ParentNode(n)
                        /\ C24_WithoutLast(Out[i].path) = Out[j].path

\* a returned list with a comment of depth 3 behind its parent and its
\* grandparent
C24_Witness ==
    /\ Returned
    /\ C23_RepliesFollowParents
    /\ \E i \in OutIndexes :
          /\ C24_Depth(NodeOf(Out[i].id)) = 3
          /\ C24_Components(Out[i].path) = 3

\* C25: a comment of a returned list whose position is at least the number
\* of returned comments has score 0, and calculateScore yields 0 for its
\* position and that total at every downvote level 0..9.
C25_ZeroBeyondTotal ==
    Returned =>
        \A i \in OutIndexes :
            Out[i].position >= Len(Out) =>
                /\ Out[i].score = 0
                /\ \A dv \in AllDownvoteLevels :
                      calculateScore([Out[i] EXCEPT !.downvotes = dv], Len(Out)) = 0

\* a returned list holds a downvoted comment whose position exceeds the
\* number of returned comments
C25_Witness ==
    /\ Returned
    /\ \E i \in OutIndexes :
          /\ Out[i].position > Len(Out)
          /\ Out[i].downvotes > 0
          /\ Out[i].score = 0

\* the handler cleared its timer before the timer fired
C26_ClearedInTime ==
    /\ \A i, j \in DOMAIN toolCall.log :
          (i < j /\ toolCall.log[i] = "cleared") => toolCall.log[j] # "fired"
    /\ (toolCall.download \in {"resolved", "rejected"} /\ toolCall.timer # "fired")
          => toolCall.timer = "cleared"

\* C26: a tool call does not wait for its download beyond 30 seconds: once
\* the timer has fired the download is no longer pending and the call does
\* not return a result, and no call is still waiting when more than 30
\* seconds have passed; when the download completes first, the timer is
\* cleared and does not fire afterwards.
C26_BoundedByTimeout ==
    /\ toolCall.timer = "fired" =>
          /\ toolCall.download \notin {"pending", "resolved"}
          /\ toolCall.state # "returned"
    /\ (toolCall.timer # "unset" /\ toolCall.clock > toolCall.due) =>
          toolCall.state # "awaiting"
    /\ C26_ClearedInTime

\* the ports probed so far are startPort, startPort + 1, ... in this order,
\* and at most one probe server exists at a time
C27_ProbesInOrder ==
    /\ \A i \in DOMAIN portSearch.probes :
          portSearch.probes[i] = portSearch.startPort + i - 1
    /\ portSearch.open <= 1

\* the promise is settled at most once; it resolves with the first probed
\* port that listens, once the probe server is closed, and an error other
\* than EADDRINUSE rejects it with that error
C27_SettlesOnce ==
    /\ portSearch.settles <= 1
    /\ (portSearch.settles = 0) <=> (portSearch.promise = "pending")
    /\ portSearch.promise = "resolved" =>
          /\ portSearch.testServer = "closed"
          /\ portSearch.value = portSearch.probes[Len(portSearch.probes)]
          /\ \A p \in PortsFrom(portSearch.startPort) :
                (portSearch.listen[p] = "listening"
                 /\ \A q \in portSearch.startPort..(p - 1) :
                       portSearch.listen[q] = "EADDRINUSE")
                => portSearch.value = p
    /\ (portSearch.promise = "rejected"
        /\ portSearch.reason # ExhaustedMessage(portSearch.maxAttempts)) =>
          /\ portSearch.reason = "EACCES"
          /\ portSearch.listen[portSearch.probes[Len(portSearch.probes)]] = "EACCES"

\* C27: findAvailablePort probes startPort, startPort + 1, ... one at a time,
\* resolves with the first port that listens, rejects at once on an error
\* other than EADDRINUSE, rejects with the message naming maxAttempts once
\* maxAttempts probes have failed with EADDRINUSE, never probes more than
\* maxAttempts ports and settles its promise once.
C27_AtMostMaxAttempts ==
    /\ C27_ProbesInOrder
    /\ C27_SettlesOnce
    /\ Len(portSearch.probes) <= portSearch.maxAttempts
    /\ (portSearch.promise = "rejected"
        /\ portSearch.reason = ExhaustedMessage(portSearch.maxAttempts)) =>
          /\ Len(portSearch.probes) = portSearch.maxAttempts
          /\ \A i \in DOMAIN portSearch.probes :
                portSearch.listen[portSearch.probes[i]] = "EADDRINUSE"

C28_IsRest == httpCall.request.route = "REST"

\* the request is a summarize request: REST, or an invoke of the endpoint
\* summarize
C28_IsSummarize ==
    \/ C28_IsRest
    \/ /\ "params" \in DOMAIN httpCall.request.body
       /\ httpCall.request.body.params.endpoint = "summarize"

\* the input of the request: << v >> when the request holds the JSON value v
\* as its input, << >> when it holds none
C28_Input ==
    LET body == httpCall.request.body IN
    IF C28_IsRest
    THEN IF "input" \in DOMAIN body THEN << body.input >> ELSE << >>
    ELSE IF "params" \in DOMAIN body.params /\ "input" \in DOMAIN body.params.params
         THEN << body.params.params.input >> ELSE << >>

\* the input is missing or empty, or it is a string for which getPostId
\* returns null
C28_MissingOrNull ==
    \/ C28_Input = << >>
    \/ C28_Input[1] \in {[string |-> ""], [number |-> 0]}
    \/ /\ "string" \in DOMAIN C28_Input[1]
       /\ getPostId(C28_Input[1].string).isNull

C28_Answer == httpCall.responses[1]

\* the answer is an error with this HTTP status (REST) or JSON-RPC code
C28_IsError(status, code) ==
    IF C28_IsRest
    THEN C28_Answer.status = status /\ "error" \in DOMAIN C28_Answer.body
    ELSE /\ "error" \in DOMAIN C28_Answer.body
         /\ C28_Answer.body.error.code = code
         /\ "result" \notin DOMAIN C28_Answer.body

C28_IsSuccess ==
    IF C28_IsRest
    THEN "status" \in DOMAIN C28_Answer.body /\ C28_Answer.body.status = "success"
    ELSE "result" \in DOMAIN C28_Answer.body

\* one answer per request, an error for a failed download, success only for
\* a completed download, the id of a JSON-RPC request echoed
C28_OneAnswer ==
    /\ Len(httpCall.responses) <= 1
    /\ (httpCall.state = "done") <=> (Len(httpCall.responses) = 1)
    /\ (httpCall.state = "done" /\ httpCall.download = "rejected") =>
          C28_IsError(500, -32603) /\ ~C28_IsSuccess
    /\ (httpCall.state = "done" /\ C28_IsSuccess) => httpCall.download = "resolved"
    /\ (httpCall.state = "done" /\ ~C28_IsRest) =>
          /\ ("id" \in DOMAIN C28_Answer.body) <=> ("id" \in DOMAIN httpCall.request.body)
          /\ "id" \in DOMAIN C28_Answer.body =>
                C28_Answer.body.id = httpCall.request.body.id

\* C28: every summarize request gets one answer; a request whose input is
\* missing or for which getPostId returns null is answered with HTTP 400 or
\* JSON-RPC code -32602 and starts no download; a failed download is answered
\* with HTTP 500 or code -32603 and never with success; only a completed
\* download is answered with success; a JSON-RPC answer carries the request's
\* id.
C28_AnswersOfSummarize ==
    C28_IsSummarize =>
        /\ C28_OneAnswer
        /\ C28_MissingOrNull =>
              /\ httpCall.download = "none"
              /\ httpCall.state = "done" => C28_IsError(400, -32602)

====
